---- MODULE Spec2Model ----
(***************************************************************************)
(* Session / token lifecycle of the auth service: AuthService (Register,   *)
(* Login, RefreshToken, ValidateToken, Logout), JWTService (token codec),  *)
(* PostgresSessionRepository / PostgresUserRepository (the statements they *)
(* send to PostgreSQL) and the expired-session cleanup.                    *)
(*                                                                         *)
(* Every repository call is one SQL statement, so a service method is a    *)
(* sequence of steps that interleave with the steps of other requests: the *)
(* reads that open a method are one step, every writing statement is a     *)
(* step of its own, and the INSERT of ReplaceUserSession is taken together *)
(* with the Commit or Rollback that follows it.  The store is PostgreSQL   *)
(* at its default isolation level                                          *)
(* (READ COMMITTED): a statement sees the rows committed when it starts,   *)
(* blocks on a row that an open transaction has deleted, and a unique      *)
(* index makes an INSERT wait for an open transaction that holds the same  *)
(* key and fail when a committed row holds it.                             *)
(***************************************************************************)
EXTENDS Integers, FiniteSets, Sequences, TLC

\* ---------------------------------------------------------------- bounds
MaxMint == 3          \* Spec: token pairs minted in one behaviour
MaxTimeSeq == 5       \* SpecSeq: the clock runs from 0 to MaxTimeSeq ticks
MaxMintSeq == 3       \* SpecSeq: token pairs minted in one behaviour
MaxTimeSession == 5   \* SpecSession: the clock runs from 0 to MaxTimeSession
MaxMintSession == 2   \* SpecSession: token pairs minted in one behaviour
MaxTimeStore == 6     \* SpecStore: the clock runs from 0 to MaxTimeStore ticks
MaxMintStore == 2     \* SpecStore: token pairs minted in one behaviour
MaxTimeReaper == 5    \* SpecReaper: the clock runs from 0 to MaxTimeReaper
MaxMintReaper == 2    \* SpecReaper: token pairs minted in one behaviour
MaxTimeCodec == 2     \* SpecCodec: the clock and the dates of a token, in ticks
MaxTimeMint == 5      \* SpecMint: the clock runs from 0 to MaxTimeMint ticks
MaxMintMetadata == 3  \* SpecMetadata: token pairs minted in one behaviour
MaxMintReplace == 3   \* SpecReplace: token pairs minted in one behaviour
MaxTimeSweep == 5     \* SpecSweep: the clock runs from 0 to MaxTimeSweep ticks
MaxMintSweep == 3     \* SpecSweep: token pairs minted in one behaviour

\* ------------------------------------------------------- program constants
TicksPerSecond     == 2   \* jwt.NewNumericDate keeps whole seconds
AccessTokenExpiry  == 2   \* JWT_ACCESS_EXPIRY, in ticks
RefreshTokenExpiry == 4   \* JWT_REFRESH_EXPIRY, in ticks (longer than access)
RequestTimeout     == 1   \* middleware.Timeout, in ticks (shorter than both)
Issuer             == "auth-service"
AccessTokenSecret  == "access-secret"
RefreshTokenSecret == "refresh-secret"

Procs     == {1, 2}
Usernames == {"alice", "bob"}
Passwords == {"Str0ng!Pass", "Wr0ng!Pass"}
UserIds   == 1 .. Cardinality(Usernames)

\* the RegisterRequests clients send; username bob stays unregistered
RegisterRequests ==
  {[username |-> "alice", email |-> "alice@x.com", password |-> "Str0ng!Pass"]}

\* the RegisterRequests of the runs that need sessions of two users
RegisterRequestsTwoUsers ==
  RegisterRequests \cup
    {[username |-> "bob", email |-> "bob@x.com", password |-> "Str0ng!Pass"]}

NULL == -1

\* domain.SessionMetadata of a request sent by a browser from a well-formed
\* address, as middleware.SessionMetadata derives it
BrowserMetadata ==
  [deviceInfo |-> "Linux PC", ipAddress |-> "10.0.0.1",
   userAgent |-> "Mozilla/5.0 (X11; Linux x86_64)"]

\* the metadata requests carry: a request without a User-Agent header
\* (parseDeviceInfo says "Unknown"), a request whose X-Forwarded-For header
\* names no address, and a context that holds none of the three values
SessionMetadataValues ==
  {BrowserMetadata,
   [deviceInfo |-> "Unknown", ipAddress |-> "10.0.0.1", userAgent |-> ""],
   [BrowserMetadata EXCEPT !.ipAddress = "unknown"],
   [deviceInfo |-> "", ipAddress |-> "", userAgent |-> ""]}

\* the texts PostgreSQL accepts as a value of type INET
InetLiterals == {"10.0.0.1"}

\* the goroutines of StartSessionCleanup: the initial sweep and the ticker
\* loop
InitialSweep == 11
TickerLoop   == 12
Goroutines   == {InitialSweep, TickerLoop}

VARIABLES
  now,        \* time.Now(), in ticks
  users,      \* table users: set of rows
  sessions,   \* table sessions: set of committed rows
  tx,         \* per request: the open ReplaceUserSession transaction
  pc,         \* per request and per goroutine: the statement it executes next
  op,         \* per request: the service method it runs
  loc,        \* per request: the method's local variables
  last,       \* the call that returned in the last step, with its input
  nextUid,    \* next user_id the store generates
  nextJti,    \* next token id generateJTI returns
  issued,     \* tokens the service has returned to a client
  hist        \* history of the calls, recorded for the properties

vars == <<now, users, sessions, tx, pc, op, loc, last,
          nextUid, nextJti, issued, hist>>

\* ------------------------------------------------------------ failure kinds
OK                 == "OK"
TokenInvalid       == "TokenInvalid"
TokenExpired       == "TokenExpired"
Unauthorized       == "Unauthorized"
InvalidCredentials == "InvalidCredentials"
AlreadyExists      == "AlreadyExists"
NotFound           == "NotFound"
Internal           == "Internal"
\* an error that is no AppError: fmt.Errorf("failed to create session: %w")
WrappedError       == "WrappedError"

\* ------------------------------------------------------------------ values
NoUser    == [user_id |-> 0, username |-> "", email |-> "",
              password_hash |-> <<>>, is_active |-> FALSE]
NoToken   == [uid |-> 0, username |-> "", email |-> "", typ |-> "",
              iss |-> "", iat |-> 0, nbf |-> 0, exp |-> 0, jti |-> 0,
              alg |-> "", key |-> ""]
NoMetadata == [deviceInfo |-> "", ipAddress |-> "", userAgent |-> ""]
NoSession == [session_id |-> 0, user_id |-> 0, refresh_token |-> NoToken,
              metadata |-> NoMetadata,
              last_activity_at |-> 0, expires_at |-> 0, is_revoked |-> FALSE,
              revoked_at |-> NULL]
NoClaims  == [uid |-> 0, username |-> "", email |-> "", typ |-> ""]
NoPair    == [access |-> NoToken, refresh |-> NoToken]

\* ------------------------------------------------------------ token codec
\* jwt.NewNumericDate: the time truncated to whole seconds
NumericDate(t) == t - (t % TicksPerSecond)

\* JWTService.generateToken: the signed token (its claims, the algorithm
\* and the secret that signed it) and the untruncated expiry it returns
generateToken(user, tokenType, expiry, secret, jti, t) ==
  [token |-> [uid |-> user.user_id, username |-> user.username,
              email |-> user.email, typ |-> tokenType, iss |-> Issuer,
              iat |-> NumericDate(t), nbf |-> NumericDate(t),
              exp |-> NumericDate(t + expiry), jti |-> jti,
              alg |-> "HS256", key |-> secret],
   expiresAt |-> t + expiry]

\* a GenerateTokenPair that returns the expiry of the access token
GenerateTokenPairAccessExpiry(user, jti, t) ==
  LET a == generateToken(user, "access", AccessTokenExpiry,
                         AccessTokenSecret, jti, t)
      r == generateToken(user, "refresh", RefreshTokenExpiry,
                         RefreshTokenSecret, jti + 1, t)
  IN  [pair |-> [access |-> a.token, refresh |-> r.token],
       refreshExpiresAt |-> a.expiresAt]

\* JWTService.GenerateTokenPair: access token, refresh token and the
\* refresh token's expiry; jti and jti + 1 are the two generateJTI results
GenerateTokenPair(user, jti, t) ==
  LET a == generateToken(user, "access", AccessTokenExpiry,
                         AccessTokenSecret, jti, t)
      r == generateToken(user, "refresh", RefreshTokenExpiry,
                         RefreshTokenSecret, jti + 1, t)
  IN  [pair |-> [access |-> a.token, refresh |-> r.token],
       refreshExpiresAt |-> r.expiresAt]

\* The messages of the errors of jwt/v5
ErrTokenUnverifiable     == "token is unverifiable"
ErrTokenSignatureInvalid == "token signature is invalid"
ErrTokenInvalidClaims    == "token has invalid claims"
ErrTokenExpired          == "token is expired"
ErrTokenNotValidYet      == "token is not valid yet"

\* the algorithms of *jwt.SigningMethodHMAC
SigningMethodHMAC == {"HS256", "HS384", "HS512"}

\* jwt.ParseWithClaims with the key function of validateToken: the text of
\* the error it returns, as the sequence of the messages that err.Error()
\* joins (<<>> when the token parses and verifies).  The key function
\* refuses every algorithm but the HMAC ones; the signature is verified
\* before the claims; the claims are valid when nbf <= now < exp, and the
\* validator reports every claim that fails.
ParseWithClaims(tok, secret, t) ==
  IF tok.alg \notin SigningMethodHMAC
    THEN <<ErrTokenUnverifiable, "error while executing keyfunc">>
  ELSE IF tok.key # secret
    THEN <<ErrTokenSignatureInvalid, "signature is invalid">>
  ELSE IF ~(t < tok.exp) /\ t < tok.nbf
    THEN <<ErrTokenInvalidClaims, ErrTokenExpired, ErrTokenNotValidYet>>
  ELSE IF ~(t < tok.exp)
    THEN <<ErrTokenInvalidClaims, ErrTokenExpired>>
  ELSE IF t < tok.nbf
    THEN <<ErrTokenInvalidClaims, ErrTokenNotValidYet>>
  ELSE <<>>

\* a switch that asks whether the error wraps the sentinel (errors.Is)
ParseErrorKindIs(err) ==
  IF \E i \in 1..Len(err) : err[i] = ErrTokenExpired THEN TokenExpired
  ELSE TokenInvalid

\* the switch of validateToken over the error of ParseWithClaims: it
\* compares the whole text of the error with the text of the sentinel
ParseErrorKind(err) ==
  IF err = <<ErrTokenExpired>> THEN TokenExpired
  ELSE IF err = <<ErrTokenNotValidYet>> THEN TokenInvalid
  ELSE TokenInvalid

\* a validateToken that does not compare the issuer
validateTokenAnyIssuer(tok, expectedType, secret, t) ==
  LET err == ParseWithClaims(tok, secret, t) IN
  IF err # <<>> THEN [kind |-> ParseErrorKind(err), claims |-> NoClaims]
  ELSE IF tok.typ # expectedType
    THEN [kind |-> TokenInvalid, claims |-> NoClaims]
  ELSE [kind |-> OK,
        claims |-> [uid |-> tok.uid, username |-> tok.username,
                    email |-> tok.email, typ |-> tok.typ]]

\* JWTService.validateToken
validateToken(tok, expectedType, secret, t) ==
  LET err == ParseWithClaims(tok, secret, t) IN
  IF err # <<>> THEN [kind |-> ParseErrorKind(err), claims |-> NoClaims]
  ELSE IF tok.typ # expectedType
    THEN [kind |-> TokenInvalid, claims |-> NoClaims]
  ELSE IF tok.iss # Issuer
    THEN [kind |-> TokenInvalid, claims |-> NoClaims]
  ELSE [kind |-> OK,
        claims |-> [uid |-> tok.uid, username |-> tok.username,
                    email |-> tok.email, typ |-> tok.typ]]

\* an access-token check that uses the class and the secret of refresh tokens
ValidateAccessTokenAsRefresh(tok, t) ==
  validateToken(tok, "refresh", RefreshTokenSecret, t)

ValidateAccessToken(tok, t)  == validateToken(tok, "access", AccessTokenSecret, t)

ValidateRefreshToken(tok, t) == validateToken(tok, "refresh", RefreshTokenSecret, t)

\* bcrypt: hashPassword / verifyPassword
hashPassword(password) == <<"bcrypt", password>>

verifyPassword(hashedPassword, password) == hashedPassword = hashPassword(password)

\* domain.Session.IsExpired / IsValid
IsExpired(s, t) == t > s.expires_at

IsValid(s, t) == ~IsExpired(s, t) /\ ~s.is_revoked

\* ------------------------------------------------------------------- state
NoTx == [active |-> FALSE, del |-> {}]

NoPre == [used |-> FALSE, superseded |-> FALSE, loggedOut |-> FALSE,
          fresh |-> FALSE, latest |-> FALSE, expired |-> FALSE,
          rotated |-> FALSE, usable |-> FALSE]

LocInit == [username |-> "", email |-> "", password |-> "", token |-> NoToken,
            claims |-> NoClaims, session |-> NoSession, user |-> NoUser,
            pair |-> NoPair, expiresAt |-> 0, insertNow |-> 0, userID |-> 0,
            metadata |-> BrowserMetadata,
            targets |-> {},
            known |-> {}, started |-> 0, pre |-> NoPre, peers |-> {}]

NoLast == [op |-> "none", kind |-> OK, typ |-> "",
             claims |-> NoClaims, userID |-> 0, pair |-> NoPair, pre |-> NoPre,
             peers |-> {}, verified |-> FALSE, session |-> NoSession]

HistInit == [rotations |-> {}, superseded |-> {}, loggedOut |-> {},
             fresh |-> {}, reaper |-> "none"]

Init ==
  /\ now = 0
  /\ users = {}
  /\ sessions = {}
  /\ tx = [p \in Procs |-> NoTx]
  /\ pc = [p \in Procs \cup Goroutines |->
              IF p \in Procs THEN "idle"
              ELSE IF p = InitialSweep THEN "sweep" ELSE "wait"]
  /\ op = [p \in Procs |-> "none"]
  /\ loc = [p \in Procs |-> LocInit]
  /\ last = NoLast
  /\ nextUid = 1
  /\ nextJti = 1
  /\ issued = {}
  /\ hist = HistInit

\* refresh tokens (by jti) that have been returned to user uid
RefreshJtisOf(uid) == {t.jti : t \in {i \in issued : i.typ = "refresh" /\ i.uid = uid}}

\* token pairs minted so far, and calls under way that will mint one
Minted == (nextJti - 1) \div 2

PreMintPcs == {"rg_create", "rt_revoke", "tx_delete"}

MayStartMinting(n) ==
  Minted + Cardinality({q \in Procs : pc[q] \in PreMintPcs}) < n

\* the calls under way next to p's: the method and the user of each
InFlight(p) ==
  {<<op[q], loc[q].userID>> : q \in {r \in Procs \ {p} : pc[r] # "idle"}}

\* the call o of p goes on after its first step with the locals rec; the
\* calls that overlap are recorded on both sides
Begin(p, o, rec) ==
  [q \in Procs |->
     IF q = p THEN [rec EXCEPT !.peers = InFlight(p)]
     ELSE IF pc[q] # "idle" THEN [loc[q] EXCEPT !.peers = @ \cup {<<o, rec.userID>>}]
     ELSE loc[q]]

\* the call o of p returns: kind is the failure kind (OK on success), pair
\* the token pair; tok, claims, uid and pre describe the call, and verified
\* says whether the password of the request matches the user's hash
ReturnRequest(p, o, kind, pair, tok, claims, uid, pre, verified) ==
  /\ pc' = [pc EXCEPT ![p] = "idle"]
  /\ op' = [op EXCEPT ![p] = "none"]
  /\ last' = [op |-> o, kind |-> kind, typ |-> tok.typ,
               claims |-> claims, userID |-> uid, pair |-> pair, pre |-> pre,
               peers |-> loc[p].peers \cup InFlight(p),
               verified |-> verified, session |-> NoSession]
  /\ loc' = [loc EXCEPT ![p] = LocInit]

\* the return of a call that carries no password
ReturnWith(p, o, kind, pair, tok, claims, uid, pre) ==
  ReturnRequest(p, o, kind, pair, tok, claims, uid, pre, FALSE)

\* a step in which no call returns
Silent == last' = NoLast

\* the return of a call that has reached ReplaceUserSession
Return(p, o, kind, pair) ==
  ReturnRequest(p, o, kind, pair, loc[p].token, NoClaims, loc[p].userID,
                loc[p].pre,
                verifyPassword(loc[p].user.password_hash, loc[p].password))

\* ------------------------------------------------------ the store's locks
\* a row deleted by an open transaction of another request is locked
LockedByOther(p, sid) ==
  \E q \in Procs \ {p} : tx[q].active /\ sid \in tx[q].del

\* table sessions with refresh_token UNIQUE alone, without the partial index
UniqueConflictWithoutActiveIndex(a, b) ==
  a.refresh_token = b.refresh_token

\* the unique indexes of table sessions: refresh_token UNIQUE and
\* idx_sessions_user_id_active (user_id) WHERE is_revoked = false
UniqueConflict(a, b) ==
  \/ a.refresh_token = b.refresh_token
  \/ a.user_id = b.user_id /\ ~a.is_revoked /\ ~b.is_revoked

\* ------------------------------------------------------ AuthService.Register
\* GetByUsername and GetByEmail: the username or the email is taken ->
\* AlreadyExists
RegisterCheck(p, un, em, pw) ==
  /\ pc[p] = "idle"
  /\ IF \E u \in users : u.username = un \/ u.email = em
       THEN /\ ReturnWith(p, "Register", AlreadyExists, NoPair, NoToken,
                          NoClaims, 0, NoPre)
       ELSE /\ pc' = [pc EXCEPT ![p] = "rg_create"]
            /\ op' = [op EXCEPT ![p] = "Register"]
            /\ loc' = Begin(p, "Register",
                            [LocInit EXCEPT !.username = un, !.email = em,
                                            !.password = pw, !.started = now])
            /\ Silent
  /\ UNCHANGED <<now, users, sessions, tx, nextUid, nextJti, issued, hist>>

\* hashPassword and PostgresUserRepository.Create: INSERT INTO users; the
\* UNIQUE constraints on username and email fail the insert, and Register
\* turns every error of Create into Internal("failed to create user")
RegisterCreate(p) ==
  /\ pc[p] = "rg_create"
  /\ LET user == [user_id |-> nextUid, username |-> loc[p].username,
                   email |-> loc[p].email,
                   password_hash |-> hashPassword(loc[p].password),
                   is_active |-> TRUE]
     IN IF \E u \in users : u.username = user.username \/ u.email = user.email
          THEN /\ Return(p, "Register", Internal, NoPair)
               /\ UNCHANGED <<users, nextUid>>
          ELSE /\ users' = users \cup {user}
               /\ nextUid' = nextUid + 1
               /\ pc' = [pc EXCEPT ![p] = "tx_delete"]
               /\ loc' = [loc EXCEPT ![p].user = user,
                                      ![p].userID = user.user_id]
               /\ UNCHANGED op
               /\ Silent
  /\ UNCHANGED <<now, sessions, tx, nextJti, issued, hist>>

\* --------------------------------------------------------- AuthService.Login
\* a Login that does not look at the user's is_active
LoginGetUserNoActiveTest(p, un, pw) ==
  /\ pc[p] = "idle"
  /\ LET found == {u \in users : u.username = un} IN
     IF found = {}
       THEN ReturnWith(p, "Login", InvalidCredentials, NoPair, NoToken,
                       NoClaims, 0, NoPre)
     ELSE LET user == CHOOSE u \in found : TRUE IN
       IF ~verifyPassword(user.password_hash, pw)
         THEN ReturnWith(p, "Login", InvalidCredentials, NoPair, NoToken,
                         NoClaims, user.user_id, NoPre)
       ELSE /\ pc' = [pc EXCEPT ![p] = "tx_delete"]
            /\ op' = [op EXCEPT ![p] = "Login"]
            /\ loc' = Begin(p, "Login",
                            [LocInit EXCEPT !.username = un, !.password = pw,
                                            !.user = user,
                                            !.userID = user.user_id,
                                            !.started = now])
            /\ Silent
  /\ UNCHANGED <<now, users, sessions, tx, nextUid, nextJti, issued, hist>>

\* a Login that revokes the sessions of the user when the password is wrong
LoginGetUserLocksOut(p, un, pw) ==
  /\ pc[p] = "idle"
  /\ LET found == {u \in users : u.username = un} IN
     IF found = {}
       THEN /\ ReturnWith(p, "Login", InvalidCredentials, NoPair, NoToken,
                          NoClaims, 0, NoPre)
            /\ UNCHANGED sessions
     ELSE LET user == CHOOSE u \in found : TRUE IN
       IF ~user.is_active
         THEN /\ ReturnRequest(p, "Login", Unauthorized, NoPair, NoToken,
                               NoClaims, user.user_id, NoPre,
                               verifyPassword(user.password_hash, pw))
              /\ UNCHANGED sessions
       ELSE IF ~verifyPassword(user.password_hash, pw)
         THEN /\ ReturnWith(p, "Login", InvalidCredentials, NoPair, NoToken,
                            NoClaims, user.user_id, NoPre)
              /\ sessions' = {IF s.user_id = user.user_id
                                THEN [s EXCEPT !.is_revoked = TRUE,
                                               !.revoked_at = now]
                                ELSE s : s \in sessions}
       ELSE /\ pc' = [pc EXCEPT ![p] = "tx_delete"]
            /\ op' = [op EXCEPT ![p] = "Login"]
            /\ loc' = Begin(p, "Login",
                            [LocInit EXCEPT !.username = un, !.password = pw,
                                            !.user = user,
                                            !.userID = user.user_id,
                                            !.started = now])
            /\ UNCHANGED sessions
            /\ Silent
  /\ UNCHANGED <<now, users, tx, nextUid, nextJti, issued, hist>>

\* GetByUsername, the is_active test and verifyPassword
LoginGetUser(p, un, pw) ==
  /\ pc[p] = "idle"
  /\ LET found == {u \in users : u.username = un} IN
     IF found = {}
       THEN ReturnWith(p, "Login", InvalidCredentials, NoPair, NoToken,
                       NoClaims, 0, NoPre)
     ELSE LET user == CHOOSE u \in found : TRUE IN
       IF ~user.is_active
         THEN ReturnRequest(p, "Login", Unauthorized, NoPair, NoToken,
                            NoClaims, user.user_id, NoPre,
                            verifyPassword(user.password_hash, pw))
       ELSE IF ~verifyPassword(user.password_hash, pw)
         THEN ReturnWith(p, "Login", InvalidCredentials, NoPair, NoToken,
                         NoClaims, user.user_id, NoPre)
       ELSE /\ pc' = [pc EXCEPT ![p] = "tx_delete"]
            /\ op' = [op EXCEPT ![p] = "Login"]
            /\ loc' = Begin(p, "Login",
                            [LocInit EXCEPT !.username = un, !.password = pw,
                                            !.user = user,
                                            !.userID = user.user_id,
                                            !.started = now])
            /\ Silent
  /\ UNCHANGED <<now, users, sessions, tx, nextUid, nextJti, issued, hist>>

\* --------------------------- AuthService.generateAndStoreTokensWithSession
\* the row ReplaceUserSession inserts, with last_activity_at the time t
\* that ReplaceUserSession has read from the clock; the session_id the store generates is named by the token id
\* of the row's refresh token
NewSession(uid, refreshToken, expiresAt, metadata, t) ==
  [session_id |-> refreshToken.jti, user_id |-> uid,
   refresh_token |-> refreshToken, metadata |-> metadata,
   last_activity_at |-> t,
   expires_at |-> expiresAt, is_revoked |-> FALSE, revoked_at |-> NULL]

\* the row that p's transaction is to insert
Pending(p) ==
  NewSession(loc[p].userID, loc[p].pair.refresh, loc[p].expiresAt,
             loc[p].metadata, loc[p].insertNow)

\* AuthService.getSessionMetadataFromContext: the metadata that the context
\* of p's request turns out to carry
getSessionMetadataFromContext(p, m) ==
  /\ pc[p] = "tx_delete"
  /\ loc[p].metadata = BrowserMetadata
  /\ m # BrowserMetadata
  /\ loc' = [loc EXCEPT ![p].metadata = m]
  /\ UNCHANGED <<now, users, sessions, tx, pc, op, nextUid, nextJti, issued,
                 hist>>
  /\ Silent

\* the INSERT of ReplaceUserSession binds an empty metadata string as NULL
\* and the others as they are: the store takes the row when its ip_address
\* is NULL or the text of an INET value
Storable(row) ==
  row.metadata.ipAddress = "" \/ row.metadata.ipAddress \in InetLiterals

\* the rows whose columns Scan can assign to the fields of domain.Session:
\* device_info, ip_address and user_agent go into Go strings, which take
\* no NULL
Scannable(row) ==
  /\ row.metadata.deviceInfo # ""
  /\ row.metadata.ipAddress # ""
  /\ row.metadata.userAgent # ""

\* the rows of user uid that DELETE FROM sessions WHERE user_id = $1 sees
DeleteTargets(uid) ==
  {s.session_id : s \in {r \in sessions : r.user_id = uid}}

\* a ReplaceUserSession without a transaction: its DELETE is committed when
\* the statement ends
TxDeleteAutocommit(p) ==
  /\ pc[p] = "tx_delete"
  /\ LET g == GenerateTokenPair(loc[p].user, nextJti, now)
         targets == DeleteTargets(loc[p].userID)
     IN IF \E sid \in targets : LockedByOther(p, sid)
          THEN /\ loc' = [loc EXCEPT ![p].pair = g.pair,
                                     ![p].expiresAt = g.refreshExpiresAt,
                                     ![p].targets = targets]
               /\ tx' = [tx EXCEPT ![p] = [NoTx EXCEPT !.active = TRUE]]
               /\ pc' = [pc EXCEPT ![p] = "tx_delete_wait"]
               /\ UNCHANGED sessions
          ELSE /\ loc' = [loc EXCEPT ![p].pair = g.pair,
                                     ![p].expiresAt = g.refreshExpiresAt,
                                     ![p].insertNow = now]
               /\ tx' = [tx EXCEPT ![p] = [NoTx EXCEPT !.active = TRUE]]
               /\ sessions' = {s \in sessions : s.session_id \notin targets}
               /\ pc' = [pc EXCEPT ![p] = "tx_insert"]
  /\ nextJti' = nextJti + 2
  /\ UNCHANGED <<now, users, op, nextUid, issued, hist>>
  /\ Silent

\* GenerateTokenPair, then ReplaceUserSession: Begin and DELETE FROM
\* sessions WHERE user_id = $1.  The statement sees the rows committed now;
\* it deletes them at once when no other transaction holds one of them, and
\* waits otherwise.  When the DELETE has returned, ReplaceUserSession reads
\* the clock (now := time.Now()) for the row it is going to insert.
TxDelete(p) ==
  /\ pc[p] = "tx_delete"
  /\ LET g == GenerateTokenPair(loc[p].user, nextJti, now)
         targets == DeleteTargets(loc[p].userID)
     IN IF \E sid \in targets : LockedByOther(p, sid)
          THEN /\ loc' = [loc EXCEPT ![p].pair = g.pair,
                                     ![p].expiresAt = g.refreshExpiresAt,
                                     ![p].targets = targets]
               /\ tx' = [tx EXCEPT ![p] = [NoTx EXCEPT !.active = TRUE]]
               /\ pc' = [pc EXCEPT ![p] = "tx_delete_wait"]
          ELSE /\ loc' = [loc EXCEPT ![p].pair = g.pair,
                                     ![p].expiresAt = g.refreshExpiresAt,
                                     ![p].insertNow = now]
               /\ tx' = [tx EXCEPT ![p] = [NoTx EXCEPT !.active = TRUE,
                                                       !.del = targets]]
               /\ pc' = [pc EXCEPT ![p] = "tx_insert"]
  /\ nextJti' = nextJti + 2
  /\ UNCHANGED <<now, users, sessions, op, nextUid, issued, hist>>
  /\ Silent

\* the DELETE resumes when the transactions that held its rows have ended:
\* it deletes the rows of its snapshot that still exist, and never sees a
\* row committed after it started
TxDeleteResume(p) ==
  /\ pc[p] = "tx_delete_wait"
  /\ \A sid \in loc[p].targets : ~LockedByOther(p, sid)
  /\ tx' = [tx EXCEPT ![p].del =
              {s.session_id : s \in {r \in sessions :
                                       r.session_id \in loc[p].targets}}]
  /\ loc' = [loc EXCEPT ![p].targets = {}, ![p].insertNow = now]
  /\ pc' = [pc EXCEPT ![p] = "tx_insert"]
  /\ UNCHANGED <<now, users, sessions, op, nextUid, nextJti, issued, hist>>
  /\ Silent

\* an INSERT that consults no row committed by another transaction
NoCommittedConflicts(p, row) == {}

\* committed rows, not deleted by p's own transaction, whose unique key the
\* new row repeats
CommittedConflicts(p, row) ==
  {s \in sessions : s.session_id \notin tx[p].del /\ UniqueConflict(s, row)}

\* ReplaceUserSession: INSERT INTO sessions fails on a unique index (a
\* committed row that p's transaction has not deleted holds the key; the
\* statement waits while another open transaction has deleted that row);
\* the deferred Rollback undoes the DELETE and the caller returns the error
\* wrapped by fmt.Errorf
TxInsertConflict(p) ==
  /\ pc[p] = "tx_insert"
  /\ Storable(Pending(p))
  /\ \E s \in CommittedConflicts(p, Pending(p)) :
        ~LockedByOther(p, s.session_id)
  /\ tx' = [tx EXCEPT ![p] = NoTx]
  /\ Return(p, op[p], WrappedError, NoPair)
  /\ UNCHANGED <<now, users, sessions, nextUid, nextJti, issued, hist>>

\* a failed INSERT after which the DELETE of the transaction stays in force
TxInsertInvalidKeepsDelete(p) ==
  /\ pc[p] = "tx_insert"
  /\ ~Storable(Pending(p))
  /\ sessions' = {s \in sessions : s.session_id \notin tx[p].del}
  /\ tx' = [tx EXCEPT ![p] = NoTx]
  /\ Return(p, op[p], WrappedError, NoPair)
  /\ UNCHANGED <<now, users, nextUid, nextJti, issued, hist>>

\* ReplaceUserSession: INSERT INTO sessions fails because its ip_address is
\* not the text of an INET value; the deferred Rollback undoes the DELETE
\* and the caller returns the error wrapped by fmt.Errorf
TxInsertInvalid(p) ==
  /\ pc[p] = "tx_insert"
  /\ ~Storable(Pending(p))
  /\ tx' = [tx EXCEPT ![p] = NoTx]
  /\ Return(p, op[p], WrappedError, NoPair)
  /\ UNCHANGED <<now, users, sessions, nextUid, nextJti, issued, hist>>

\* the history of the calls after p's call has stored its session
HistAfterStore(p) ==
  LET uid  == loc[p].userID
      new  == loc[p].pair.refresh.jti
      old  == loc[p].token.jti
      mine == RefreshJtisOf(uid)
  IN  IF op[p] = "Refresh"
        THEN [hist EXCEPT !.rotations = @ \cup {<<old, new>>},
                          !.fresh = (@ \ {old}) \cup
                             {j \in {new} : \E u \in users :
                                               u.user_id = uid /\ u.is_active}]
      ELSE IF op[p] = "Login"
        THEN [hist EXCEPT !.superseded = @ \cup mine,
                          !.fresh = @ \ mine]
      ELSE hist

\* a ReplaceUserSession that appends: its Commit keeps the rows of the DELETE
TxInsertCommitAppend(p) ==
  /\ pc[p] = "tx_insert"
  /\ Storable(Pending(p))
  /\ CommittedConflicts(p, Pending(p)) = {}
  /\ sessions' = sessions \cup {Pending(p)}
  /\ tx' = [tx EXCEPT ![p] = NoTx]
  /\ issued' = issued \cup {loc[p].pair.access, loc[p].pair.refresh}
  /\ hist' = HistAfterStore(p)
  /\ Return(p, op[p], OK, loc[p].pair)
  /\ UNCHANGED <<now, users, nextUid, nextJti>>

\* ReplaceUserSession: INSERT INTO sessions succeeds and the transaction
\* commits; the call returns the token pair
TxInsertCommit(p) ==
  /\ pc[p] = "tx_insert"
  /\ Storable(Pending(p))
  /\ CommittedConflicts(p, Pending(p)) = {}
  /\ sessions' = {s \in sessions : s.session_id \notin tx[p].del}
                   \cup {Pending(p)}
  /\ tx' = [tx EXCEPT ![p] = NoTx]
  /\ issued' = issued \cup {loc[p].pair.access, loc[p].pair.refresh}
  /\ hist' = HistAfterStore(p)
  /\ Return(p, op[p], OK, loc[p].pair)
  /\ UNCHANGED <<now, users, nextUid, nextJti>>

\* -------------------------------------------------- AuthService.RefreshToken
\* the tokens a client presents: the ones the service has returned
Presentable == issued

\* the refresh tokens (by jti) that a successful RefreshToken has consumed
Used == {r[1] : r \in hist.rotations}

\* the refresh token (by jti) minted last for user uid
Latest(uid) ==
  LET mine == RefreshJtisOf(uid) IN
  IF mine = {} THEN 0 ELSE CHOOSE j \in mine : \A k \in mine : k <= j

\* no row of table sessions holds the refresh token tok, or the row that
\* holds it is revoked or expired
NoUsableSession(tok, t) ==
  \A s \in sessions :
     s.refresh_token = tok => (s.is_revoked \/ ~(s.expires_at > t))

\* what the history and the store say of a token when a call presents it:
\* the flags other than expired are about refresh tokens
PreOf(tok) ==
  LET real == tok \in issued /\ tok.typ = "refresh" IN
  [used       |-> real /\ tok.jti \in Used,
   superseded |-> real /\ tok.jti \in hist.superseded,
   loggedOut  |-> real /\ tok.jti \in hist.loggedOut,
   fresh      |-> real /\ tok.jti \in hist.fresh,
   latest     |-> real /\ tok.jti = Latest(tok.uid),
   expired    |-> tok \in issued /\ ~(now < tok.exp),
   rotated    |-> real /\ tok.jti \in {r[2] : r \in hist.rotations},
   usable     |-> real /\ ~NoUsableSession(tok, now)]

\* a GetByRefreshToken whose SELECT does not look at expires_at
GetByRefreshTokenAnyExpiry(tok, t) ==
  {s \in sessions : s.refresh_token = tok}

\* PostgresSessionRepository.GetByRefreshToken:
\* SELECT ... WHERE refresh_token = $1 AND expires_at > now, and Scan into
\* a domain.Session; a row that Scan cannot assign is an error, and both
\* callers treat every error as they treat no row
GetByRefreshToken(tok, t) ==
  {s \in sessions :
     s.refresh_token = tok /\ s.expires_at > t /\ Scannable(s)}

\* PostgresUserRepository.GetByID
GetByID(uid) == {u \in users : u.user_id = uid}

\* a RefreshToken that hands on the NotFound of GetByRefreshToken
RefreshChecksNotFound(tok, t) ==
  LET v     == ValidateRefreshToken(tok, t)
      found == GetByRefreshToken(tok, t)
      urows == GetByID(v.claims.uid)
  IN  IF v.kind # OK THEN v.kind
      ELSE IF found = {} THEN NotFound
      ELSE IF ~IsValid(CHOOSE s \in found : TRUE, t) THEN TokenInvalid
      ELSE IF urows = {} THEN NotFound
      ELSE IF ~(CHOOSE u \in urows : TRUE).is_active THEN Unauthorized
      ELSE OK

\* steps 1 to 3 of RefreshToken: the failure kind they end in (OK when the
\* call goes on to revoke the session): ValidateRefreshToken,
\* GetByRefreshToken, session.IsValid, GetByID and the is_active test
RefreshChecks(tok, t) ==
  LET v     == ValidateRefreshToken(tok, t)
      found == GetByRefreshToken(tok, t)
      urows == GetByID(v.claims.uid)
  IN  IF v.kind # OK THEN v.kind
      ELSE IF found = {} THEN TokenInvalid
      ELSE IF ~IsValid(CHOOSE s \in found : TRUE, t) THEN TokenInvalid
      ELSE IF urows = {} THEN NotFound
      ELSE IF ~(CHOOSE u \in urows : TRUE).is_active THEN Unauthorized
      ELSE OK

\* a RefreshToken that goes on for a user whose is_active is false
RefreshCheckNoActiveTest(p, tok) ==
  /\ pc[p] = "idle"
  /\ LET checks == RefreshChecks(tok, now)
         kind   == IF checks = Unauthorized THEN OK ELSE checks
     IN
     IF kind # OK
       THEN ReturnWith(p, "Refresh", kind, NoPair, tok, NoClaims, tok.uid,
                       PreOf(tok))
       ELSE LET user == CHOOSE u \in GetByID(tok.uid) : TRUE IN
            /\ pc' = [pc EXCEPT ![p] = "rt_revoke"]
            /\ op' = [op EXCEPT ![p] = "Refresh"]
            /\ loc' = Begin(p, "Refresh",
                 [LocInit EXCEPT !.token = tok,
                    !.claims = ValidateRefreshToken(tok, now).claims,
                    !.session = CHOOSE s \in GetByRefreshToken(tok, now) : TRUE,
                    !.user = user, !.userID = user.user_id,
                    !.started = now, !.pre = PreOf(tok)])
            /\ Silent
  /\ UNCHANGED <<now, users, sessions, tx, nextUid, nextJti, issued, hist>>

\* a RefreshToken that revokes the session it has matched before it tests
\* is_active
RefreshCheckRevokesBeforeActiveTest(p, tok) ==
  /\ pc[p] = "idle"
  /\ LET kind == RefreshChecks(tok, now) IN
     IF kind # OK
       THEN /\ ReturnWith(p, "Refresh", kind, NoPair, tok, NoClaims, tok.uid,
                          PreOf(tok))
            /\ sessions' =
                 IF kind = Unauthorized
                   THEN {IF s.refresh_token = tok
                           THEN [s EXCEPT !.is_revoked = TRUE,
                                          !.revoked_at = now]
                           ELSE s : s \in sessions}
                   ELSE sessions
       ELSE LET user == CHOOSE u \in GetByID(tok.uid) : TRUE IN
            /\ pc' = [pc EXCEPT ![p] = "rt_revoke"]
            /\ op' = [op EXCEPT ![p] = "Refresh"]
            /\ loc' = Begin(p, "Refresh",
                 [LocInit EXCEPT !.token = tok,
                    !.claims = ValidateRefreshToken(tok, now).claims,
                    !.session = CHOOSE s \in GetByRefreshToken(tok, now) : TRUE,
                    !.user = user, !.userID = user.user_id,
                    !.started = now, !.pre = PreOf(tok)])
            /\ UNCHANGED sessions
            /\ Silent
  /\ UNCHANGED <<now, users, tx, nextUid, nextJti, issued, hist>>

\* RefreshToken up to the is_active test: the call returns the failure of
\* its checks or goes on to revoke the session it has matched
RefreshCheck(p, tok) ==
  /\ pc[p] = "idle"
  /\ LET kind == RefreshChecks(tok, now) IN
     IF kind # OK
       THEN ReturnWith(p, "Refresh", kind, NoPair, tok, NoClaims, tok.uid,
                       PreOf(tok))
       ELSE LET user == CHOOSE u \in GetByID(tok.uid) : TRUE IN
            /\ pc' = [pc EXCEPT ![p] = "rt_revoke"]
            /\ op' = [op EXCEPT ![p] = "Refresh"]
            /\ loc' = Begin(p, "Refresh",
                 [LocInit EXCEPT !.token = tok,
                    !.claims = ValidateRefreshToken(tok, now).claims,
                    !.session = CHOOSE s \in GetByRefreshToken(tok, now) : TRUE,
                    !.user = user, !.userID = user.user_id,
                    !.started = now, !.pre = PreOf(tok)])
            /\ Silent
  /\ UNCHANGED <<now, users, sessions, tx, nextUid, nextJti, issued, hist>>

\* PostgresSessionRepository.Revoke: UPDATE sessions SET is_revoked = true,
\* revoked_at = now WHERE session_id = $3
Revoke(sid, t) ==
  {IF s.session_id = sid
     THEN [s EXCEPT !.is_revoked = TRUE, !.revoked_at = t]
     ELSE s : s \in sessions}

\* step 4: the matched session is revoked; the UPDATE waits for a
\* transaction that has deleted the row; its error (no row) is only logged
RefreshRevoke(p) ==
  /\ pc[p] = "rt_revoke"
  /\ ~LockedByOther(p, loc[p].session.session_id)
  /\ sessions' = Revoke(loc[p].session.session_id, now)
  /\ pc' = [pc EXCEPT ![p] = "tx_delete"]
  /\ UNCHANGED <<now, users, tx, op, loc, nextUid, nextJti, issued, hist>>
  /\ Silent

\* ------------------------------------------------- AuthService.ValidateToken
\* a ValidateToken that asks table sessions for a valid session of the user
ValidateTokenKindWithSession(tok, t) ==
  LET v     == ValidateAccessToken(tok, t)
      urows == GetByID(v.claims.uid)
  IN  IF v.kind # OK THEN v.kind
      ELSE IF urows = {} THEN TokenInvalid
      ELSE IF ~(CHOOSE u \in urows : TRUE).is_active THEN Unauthorized
      ELSE IF \A s \in sessions : s.user_id = v.claims.uid => ~IsValid(s, t)
        THEN TokenInvalid
      ELSE OK

\* a ValidateToken that does not look at the user's is_active
ValidateTokenKindNoActiveTest(tok, t) ==
  LET v     == ValidateAccessToken(tok, t)
      urows == GetByID(v.claims.uid)
  IN  IF v.kind # OK THEN v.kind
      ELSE IF urows = {} THEN TokenInvalid
      ELSE OK

\* the failure kind of ValidateToken (OK when it returns the claims):
\* ValidateAccessToken, GetByID (missing -> TokenInvalid) and the is_active
\* test (inactive -> Unauthorized)
ValidateTokenKind(tok, t) ==
  LET v     == ValidateAccessToken(tok, t)
      urows == GetByID(v.claims.uid)
  IN  IF v.kind # OK THEN v.kind
      ELSE IF urows = {} THEN TokenInvalid
      ELSE IF ~(CHOOSE u \in urows : TRUE).is_active THEN Unauthorized
      ELSE OK

ValidateToken(p, tok) ==
  /\ pc[p] = "idle"
  /\ LET kind == ValidateTokenKind(tok, now) IN
       ReturnWith(p, "Validate", kind, NoPair, tok,
                  IF kind = OK THEN ValidateAccessToken(tok, now).claims
                               ELSE NoClaims,
                  tok.uid, PreOf(tok))
  /\ UNCHANGED <<now, users, sessions, tx, nextUid, nextJti, issued, hist>>

\* -------------------------------------------------------- AuthService.Logout
\* the UPDATE of RevokeAllByUserID with WHERE user_id = $3 alone
RevokeMatchesRevokedToo(s, uid) == s.user_id = uid

\* the UPDATE of RevokeAllByUserID with WHERE is_revoked = false alone
RevokeMatchesAnyUser(s, uid) == ~s.is_revoked

\* PostgresSessionRepository.RevokeAllByUserID: the rows of
\* WHERE user_id = $3 AND is_revoked = false
RevokeMatches(s, uid) == s.user_id = uid /\ ~s.is_revoked

\* a RevokeAllByUserID whose UPDATE sets is_revoked alone
RevokeAllByUserIDNoTimestamp(uid, targets, t) ==
  {IF RevokeMatches(s, uid) /\ s.session_id \in targets
     THEN [s EXCEPT !.is_revoked = TRUE]
     ELSE s : s \in sessions}

\* PostgresSessionRepository.RevokeAllByUserID: UPDATE sessions SET
\* is_revoked = true, revoked_at = now WHERE ..., applied to the rows of
\* the statement's snapshot (targets) that still match when it runs
RevokeAllByUserID(uid, targets, t) ==
  {IF RevokeMatches(s, uid) /\ s.session_id \in targets
     THEN [s EXCEPT !.is_revoked = TRUE, !.revoked_at = t]
     ELSE s : s \in sessions}

\* an UPDATE of RevokeAllByUserID that finds no row
RevokeNoTargets(uid) == {}

\* the rows the UPDATE of RevokeAllByUserID sees when it starts
RevokeTargets(uid) ==
  {s.session_id : s \in {r \in sessions : RevokeMatches(r, uid)}}

LogoutDone(p, uid, known) ==
  /\ hist' = [hist EXCEPT !.loggedOut = @ \cup known,
                           !.fresh = @ \ known]
  /\ ReturnWith(p, "Logout", OK, NoPair, NoToken, NoClaims, uid, NoPre)

\* Logout(userID): the UPDATE runs at once when no other transaction holds
\* one of its rows, and waits otherwise
LogoutStart(p, uid) ==
  /\ pc[p] = "idle"
  /\ LET targets == RevokeTargets(uid) IN
     IF \E sid \in targets : LockedByOther(p, sid)
       THEN /\ pc' = [pc EXCEPT ![p] = "lo_wait"]
            /\ op' = [op EXCEPT ![p] = "Logout"]
            /\ loc' = Begin(p, "Logout",
                            [LocInit EXCEPT !.userID = uid,
                                            !.targets = targets,
                                            !.known = RefreshJtisOf(uid),
                                            !.started = now])
            /\ UNCHANGED <<sessions, hist>>
            /\ Silent
       ELSE /\ sessions' = RevokeAllByUserID(uid, targets, now)
            /\ LogoutDone(p, uid, RefreshJtisOf(uid))
  /\ UNCHANGED <<now, users, tx, nextUid, nextJti, issued>>

\* the UPDATE resumes: it revokes the rows of its snapshot that still exist
LogoutResume(p) ==
  /\ pc[p] = "lo_wait"
  /\ \A sid \in loc[p].targets : ~LockedByOther(p, sid)
  /\ sessions' = RevokeAllByUserID(loc[p].userID, loc[p].targets, now)
  /\ LogoutDone(p, loc[p].userID, loc[p].known)
  /\ UNCHANGED <<now, users, tx, nextUid, nextJti, issued>>

\* ----------------------------------------------- AuthService.ValidateSession
\* ValidateSession returns: kind is the failure kind (OK on success) and
\* session the session it hands back
ReturnSession(p, kind, tok, session) ==
  /\ pc' = [pc EXCEPT ![p] = "idle"]
  /\ op' = [op EXCEPT ![p] = "none"]
  /\ last' = [NoLast EXCEPT !.op = "ValidateSession", !.kind = kind,
                            !.typ = tok.typ, !.userID = tok.uid,
                            !.pre = PreOf(tok),
                            !.peers = loc[p].peers \cup InFlight(p),
                            !.session = session]
  /\ loc' = [loc EXCEPT ![p] = LocInit]

\* GetByRefreshToken (every error -> NotFound) and session.IsValid (a
\* revoked or expired row -> TokenInvalid)
ValidateSessionGet(p, tok) ==
  /\ pc[p] = "idle"
  /\ LET found == GetByRefreshToken(tok, now) IN
     IF found = {}
       THEN ReturnSession(p, NotFound, tok, NoSession)
     ELSE LET session == CHOOSE s \in found : TRUE IN
       IF ~IsValid(session, now)
         THEN ReturnSession(p, TokenInvalid, tok, NoSession)
       ELSE /\ pc' = [pc EXCEPT ![p] = "vs_touch"]
            /\ op' = [op EXCEPT ![p] = "ValidateSession"]
            /\ loc' = Begin(p, "ValidateSession",
                            [LocInit EXCEPT !.token = tok,
                                            !.session = session,
                                            !.userID = session.user_id,
                                            !.started = now,
                                            !.pre = PreOf(tok)])
            /\ Silent
  /\ UNCHANGED <<now, users, sessions, tx, nextUid, nextJti, issued, hist>>

\* PostgresSessionRepository.UpdateLastActivity: UPDATE sessions SET
\* last_activity_at = now WHERE session_id = $3
UpdateLastActivity(sid, t) ==
  {IF s.session_id = sid THEN [s EXCEPT !.last_activity_at = t] ELSE s :
     s \in sessions}

\* a ValidateSession that hands on the error of UpdateLastActivity
ValidateSessionTouchStrict(p, fails) ==
  /\ pc[p] = "vs_touch"
  /\ ~LockedByOther(p, loc[p].session.session_id)
  /\ IF fails \/ \A s \in sessions : s.session_id # loc[p].session.session_id
       THEN /\ UNCHANGED sessions
            /\ ReturnSession(p, Internal, loc[p].token, NoSession)
       ELSE /\ sessions' = UpdateLastActivity(loc[p].session.session_id, now)
            /\ ReturnSession(p, OK, loc[p].token, loc[p].session)
  /\ UNCHANGED <<now, users, tx, nextUid, nextJti, issued, hist>>

\* UpdateLastActivity and the return of ValidateSession: the UPDATE waits
\* for a transaction that has deleted the row; it fails when the store
\* fails (fails) or when no row has the session_id; its error is logged and
\* the session read by GetByRefreshToken is returned
ValidateSessionTouch(p, fails) ==
  /\ pc[p] = "vs_touch"
  /\ ~LockedByOther(p, loc[p].session.session_id)
  /\ IF fails \/ \A s \in sessions : s.session_id # loc[p].session.session_id
       THEN UNCHANGED sessions
       ELSE sessions' = UpdateLastActivity(loc[p].session.session_id, now)
  /\ ReturnSession(p, OK, loc[p].token, loc[p].session)
  /\ UNCHANGED <<now, users, tx, nextUid, nextJti, issued, hist>>

\* ---------------------------------------------------------------- handlers
\* a handler that writes the error of the service as it is
HandlerErrorKindAsIs(kind) == kind

\* AuthHandler.Register / Login / RefreshToken: the kind the handler writes
\* for the error of the service: the AppError's own kind, and Internal for
\* an error that is no AppError
HandlerErrorKind(kind) == IF kind = WrappedError THEN Internal ELSE kind

\* ------------------------------------------------------------ environment
\* time passes; a request ends within RequestTimeout
Tick ==
  /\ \A p \in Procs : pc[p] # "idle" => now + 1 - loc[p].started <= RequestTimeout
  /\ now' = now + 1
  /\ UNCHANGED <<users, sessions, tx, pc, op, loc, nextUid, nextJti, issued, hist>>
  /\ Silent

\* PostgresUserRepository.Update with IsActive = false: an administrator
\* deactivates the account
Deactivate(uid) ==
  /\ \E u \in users : u.user_id = uid /\ u.is_active
  /\ users' = {IF u.user_id = uid THEN [u EXCEPT !.is_active = FALSE] ELSE u :
                u \in users}
  /\ hist' = [hist EXCEPT !.fresh = @ \ RefreshJtisOf(uid)]
  /\ UNCHANGED <<now, sessions, tx, pc, op, loc, nextUid, nextJti, issued>>
  /\ Silent

\* a DeleteExpired with WHERE expires_at <= now
DeleteExpiredInclusive(t) == {s \in sessions : ~(s.expires_at <= t)}

\* a DeleteExpired with WHERE expires_at < now AND is_revoked = true
DeleteExpiredRevokedOnly(t) ==
  {s \in sessions : ~(s.expires_at < t /\ s.is_revoked)}

\* a DeleteExpired that removes the sessions not used since t:
\* DELETE FROM sessions WHERE last_activity_at < now
DeleteExpiredIdle(t) == {s \in sessions : ~(s.last_activity_at < t)}

\* PostgresSessionRepository.DeleteExpired:
\* DELETE FROM sessions WHERE expires_at < now
DeleteExpired(t) == {s \in sessions : ~(s.expires_at < t)}

\* AuthService.CleanupExpiredSessions, one sweep of StartSessionCleanup
CleanupExpiredSessions ==
  /\ \A s \in sessions \ DeleteExpired(now) :
        \A p \in Procs : ~(tx[p].active /\ s.session_id \in tx[p].del)
  /\ sessions # DeleteExpired(now)
  /\ sessions' = DeleteExpired(now)
  /\ UNCHANGED <<now, users, tx, pc, op, loc, nextUid, nextJti, issued, hist>>
  /\ Silent

\* what the log of the reaper shows: "failed" after a sweep that failed,
\* "recovered" after a sweep that succeeded later than a failed one
ReaperLog(fails) ==
  IF fails THEN "failed"
  ELSE IF hist.reaper = "failed" THEN "recovered" ELSE hist.reaper

\* one CleanupExpiredSessions of goroutine g, which goes on at pc next: the
\* DELETE waits for the transactions that hold one of its rows; an error is
\* logged
Sweep(g, fails, next) ==
  /\ pc[g] = "sweep"
  /\ IF fails
       THEN UNCHANGED sessions
       ELSE /\ \A s \in sessions \ DeleteExpired(now) :
                  \A p \in Procs : ~(tx[p].active /\ s.session_id \in tx[p].del)
            /\ sessions' = DeleteExpired(now)
  /\ pc' = [pc EXCEPT ![g] = next]
  /\ hist' = [hist EXCEPT !.reaper = ReaperLog(fails)]
  /\ UNCHANGED <<now, users, tx, op, loc, nextUid, nextJti, issued>>
  /\ Silent

\* StartSessionCleanup, first goroutine: one sweep at startup
InitialCleanup(fails) == Sweep(InitialSweep, fails, "done")

\* StartSessionCleanup, second goroutine: for range ticker.C receives a tick
TimerTick ==
  /\ pc[TickerLoop] = "wait"
  /\ pc' = [pc EXCEPT ![TickerLoop] = "sweep"]
  /\ UNCHANGED <<now, users, sessions, tx, op, loc, nextUid, nextJti, issued,
                 hist>>
  /\ Silent

\* a ticker loop that ends at the first sweep that fails
TickerCleanupExits(fails) ==
  Sweep(TickerLoop, fails, IF fails THEN "done" ELSE "wait")

\* the body of the ticker loop: one sweep, then the next tick is awaited
TickerCleanup(fails) == Sweep(TickerLoop, fails, "wait")

\* the tokens a client can present: made by anyone, with any algorithm, key,
\* class, issuer and dates
PresentedTokens ==
  [uid : {1}, username : {"alice"}, email : {"alice@x.com"},
   typ : {"access", "refresh"}, iss : {Issuer, "other-service"},
   iat : {0}, nbf : 0 .. MaxTimeCodec, exp : 0 .. MaxTimeCodec, jti : {1},
   alg : {"HS256", "HS512", "RS256", "none"},
   key : {AccessTokenSecret, RefreshTokenSecret, "guessed-secret"}]

\* a request that carries one of the presented tokens arrives at some time
InitCodec ==
  /\ now \in 0 .. MaxTimeCodec
  /\ users = {}
  /\ sessions = {}
  /\ tx = [p \in Procs |-> NoTx]
  /\ pc = [p \in Procs \cup Goroutines |->
              IF p \in Procs THEN "idle"
              ELSE IF p = InitialSweep THEN "sweep" ELSE "wait"]
  /\ op = [p \in Procs |-> "none"]
  /\ \E tok \in PresentedTokens :
        loc = [p \in Procs |->
                 IF p = 1 THEN [LocInit EXCEPT !.token = tok] ELSE LocInit]
  /\ last = NoLast
  /\ nextUid = 1
  /\ nextJti = 1
  /\ issued = {}
  /\ hist = HistInit

\* the result of a token check is handed to the caller
ReturnCheck(o, result) ==
  /\ last' = [NoLast EXCEPT !.op = o, !.kind = result.kind,
                            !.claims = result.claims]
  /\ UNCHANGED <<now, users, sessions, tx, pc, op, loc, nextUid, nextJti,
                 issued, hist>>

\* JWTService.ValidateAccessToken applied to the token of the request
CheckAccessToken ==
  ReturnCheck("ValidateAccessToken", ValidateAccessToken(loc[1].token, now))

\* JWTService.ValidateRefreshToken applied to the token of the request
CheckRefreshToken ==
  ReturnCheck("ValidateRefreshToken", ValidateRefreshToken(loc[1].token, now))

\* the users GenerateTokenPair is called for
MintUsers ==
  {[user_id |-> 1, username |-> "alice", email |-> "alice@x.com",
    password_hash |-> hashPassword("Str0ng!Pass"), is_active |-> TRUE],
   [user_id |-> 2, username |-> "bob", email |-> "bob@x.com",
    password_hash |-> hashPassword("Str0ng!Pass"), is_active |-> TRUE]}

\* a caller of JWTService holds one of the users, at some time
InitMint ==
  /\ now \in 0 .. MaxTimeMint
  /\ \E user \in MintUsers :
        /\ users = {user}
        /\ loc = [p \in Procs |->
                    IF p = 1 THEN [LocInit EXCEPT !.user = user] ELSE LocInit]
  /\ sessions = {}
  /\ tx = [p \in Procs |-> NoTx]
  /\ pc = [p \in Procs \cup Goroutines |->
              IF p \in Procs THEN "idle"
              ELSE IF p = InitialSweep THEN "sweep" ELSE "wait"]
  /\ op = [p \in Procs |-> "none"]
  /\ last = NoLast
  /\ nextUid = 3
  /\ nextJti = 1
  /\ issued = {}
  /\ hist = HistInit

\* JWTService.GenerateTokenPair for the user: the pair and the expiry it
\* returns are kept by the caller
MintPair ==
  /\ loc[1].pair = NoPair
  /\ LET g == GenerateTokenPair(loc[1].user, nextJti, now) IN
       /\ loc' = [loc EXCEPT ![1].pair = g.pair,
                              ![1].expiresAt = g.refreshExpiresAt,
                              ![1].started = now]
       /\ issued' = {g.pair.access, g.pair.refresh}
  /\ nextJti' = nextJti + 2
  /\ UNCHANGED <<now, users, sessions, tx, pc, op, nextUid, hist>>
  /\ Silent

\* the caller presents one of the two tokens of the pair
PresentMinted(tok) ==
  /\ tok \in issued
  /\ loc[1].token # tok
  /\ loc' = [loc EXCEPT ![1].token = tok]
  /\ UNCHANGED <<now, users, sessions, tx, pc, op, nextUid, nextJti, issued,
                 hist>>
  /\ Silent

\* ------------------------------------------------------------ specification
\* a request is taken by the first idle worker
Start(p) == pc[p] = "idle" /\ \A q \in Procs : q < p => pc[q] # "idle"

\* the call that p has begun in this step goes on only while fewer than n
\* token pairs are minted or about to be
Bounded(p, n) == pc'[p] # "idle" => MayStartMinting(n)

\* two requests are served at a time, within one tick of the clock
Next ==
  \/ \E p \in Procs, r \in RegisterRequests :
        /\ Start(p)
        /\ RegisterCheck(p, r.username, r.email, r.password)
        /\ Bounded(p, MaxMint)
  \/ \E p \in Procs : RegisterCreate(p)
  \/ \E p \in Procs, un \in Usernames, pw \in Passwords :
        Start(p) /\ LoginGetUser(p, un, pw) /\ Bounded(p, MaxMint)
  \/ \E p \in Procs : TxDelete(p)
  \/ \E p \in Procs : TxDeleteResume(p)
  \/ \E p \in Procs : TxInsertCommit(p)
  \/ \E p \in Procs : TxInsertConflict(p)
  \/ \E p \in Procs : \E tok \in Presentable :
        Start(p) /\ RefreshCheck(p, tok) /\ Bounded(p, MaxMint)
  \/ \E p \in Procs : RefreshRevoke(p)
  \/ \E p \in Procs : \E tok \in Presentable : Start(p) /\ ValidateToken(p, tok)
  \/ \E p \in Procs, uid \in UserIds : Start(p) /\ LogoutStart(p, uid)
  \/ \E p \in Procs : LogoutResume(p)
  \/ \E uid \in UserIds : Deactivate(uid)

Spec == Init /\ [][Next]_vars

\* one request is served at a time, over a longer time in which accounts
\* are deactivated and the reaper runs
NextSeq ==
  \/ \E r \in RegisterRequests :
        /\ RegisterCheck(1, r.username, r.email, r.password)
        /\ Bounded(1, MaxMintSeq)
  \/ RegisterCreate(1)
  \/ \E un \in Usernames, pw \in Passwords :
        LoginGetUser(1, un, pw) /\ Bounded(1, MaxMintSeq)
  \/ TxDelete(1)
  \/ TxInsertCommit(1)
  \/ \E tok \in Presentable :
        RefreshCheck(1, tok) /\ Bounded(1, MaxMintSeq)
  \/ RefreshRevoke(1)
  \/ \E tok \in Presentable : ValidateToken(1, tok)
  \/ \E uid \in UserIds : LogoutStart(1, uid)
  \/ \E uid \in UserIds : Deactivate(uid)
  \/ CleanupExpiredSessions
  \/ now < MaxTimeSeq /\ Tick

SpecSeq == Init /\ [][NextSeq]_vars

\* one request is served at a time, and sessions are validated
NextSession ==
  \/ \E r \in RegisterRequests :
        /\ RegisterCheck(1, r.username, r.email, r.password)
        /\ Bounded(1, MaxMintSession)
  \/ RegisterCreate(1)
  \/ \E un \in Usernames :
        LoginGetUser(1, un, "Str0ng!Pass") /\ Bounded(1, MaxMintSession)
  \/ TxDelete(1)
  \/ TxInsertCommit(1)
  \/ \E uid \in UserIds : LogoutStart(1, uid)
  \/ \E tok \in Presentable : ValidateSessionGet(1, tok)
  \/ \E fails \in BOOLEAN : ValidateSessionTouch(1, fails)
  \/ now < MaxTimeSession /\ Tick

SpecSession == Init /\ [][NextSession]_vars

\* two users register and log out, one request at a time, and the expired
\* sessions are swept
NextStore ==
  \/ \E r \in RegisterRequestsTwoUsers :
        /\ RegisterCheck(1, r.username, r.email, r.password)
        /\ Bounded(1, MaxMintStore)
  \/ RegisterCreate(1)
  \/ TxDelete(1)
  \/ TxInsertCommit(1)
  \/ \E uid \in UserIds : LogoutStart(1, uid)
  \/ CleanupExpiredSessions
  \/ now < MaxTimeStore /\ Tick

SpecStore == Init /\ [][NextStore]_vars

\* the goroutines of StartSessionCleanup run next to the requests of one
\* user
NextReaper ==
  \/ \E r \in RegisterRequests :
        /\ RegisterCheck(1, r.username, r.email, r.password)
        /\ Bounded(1, MaxMintReaper)
  \/ RegisterCreate(1)
  \/ \E un \in Usernames :
        LoginGetUser(1, un, "Str0ng!Pass") /\ Bounded(1, MaxMintReaper)
  \/ TxDelete(1)
  \/ TxInsertCommit(1)
  \/ \E uid \in UserIds : LogoutStart(1, uid)
  \/ \E fails \in BOOLEAN : InitialCleanup(fails)
  \/ TimerTick
  \/ \E fails \in BOOLEAN : TickerCleanup(fails)
  \/ now < MaxTimeReaper /\ Tick

SpecReaper == Init /\ [][NextReaper]_vars

\* the two token checks of JWTService, applied to the presented token
NextCodec ==
  \/ CheckAccessToken
  \/ CheckRefreshToken

SpecCodec == InitCodec /\ [][NextCodec]_vars

\* a token pair is minted for a user and its tokens are checked as time
\* passes
NextMint ==
  \/ MintPair
  \/ \E tok \in issued : PresentMinted(tok)
  \/ CheckAccessToken
  \/ CheckRefreshToken
  \/ now < MaxTimeMint /\ Tick

SpecMint == InitMint /\ [][NextMint]_vars

\* one request is served at a time, and the requests carry any of the
\* metadata
NextMetadata ==
  \/ \E r \in RegisterRequests :
        /\ RegisterCheck(1, r.username, r.email, r.password)
        /\ Bounded(1, MaxMintMetadata)
  \/ RegisterCreate(1)
  \/ \E un \in Usernames :
        LoginGetUser(1, un, "Str0ng!Pass") /\ Bounded(1, MaxMintMetadata)
  \/ \E m \in SessionMetadataValues : getSessionMetadataFromContext(1, m)
  \/ TxDelete(1)
  \/ TxInsertCommit(1)
  \/ TxInsertInvalid(1)
  \/ \E tok \in Presentable :
        RefreshCheck(1, tok) /\ Bounded(1, MaxMintMetadata)
  \/ RefreshRevoke(1)

SpecMetadata == Init /\ [][NextMetadata]_vars

\* ReplaceUserSession: db.Begin or the DELETE returns an error (the store
\* is not reachable, the context is cancelled while the statement waits);
\* nothing has been written, the deferred Rollback ends the transaction
TxDeleteFails(p) ==
  /\ pc[p] \in {"tx_delete", "tx_delete_wait"}
  /\ nextJti' = IF pc[p] = "tx_delete" THEN nextJti + 2 ELSE nextJti
  /\ tx' = [tx EXCEPT ![p] = NoTx]
  /\ Return(p, op[p], WrappedError, NoPair)
  /\ UNCHANGED <<now, users, sessions, nextUid, issued, hist>>

\* ReplaceUserSession: the INSERT has succeeded and tx.Commit returns an
\* error: the store has aborted the transaction, and neither its DELETE nor
\* its INSERT takes effect
TxCommitFails(p) ==
  /\ pc[p] = "tx_insert"
  /\ Storable(Pending(p))
  /\ CommittedConflicts(p, Pending(p)) = {}
  /\ tx' = [tx EXCEPT ![p] = NoTx]
  /\ Return(p, op[p], WrappedError, NoPair)
  /\ UNCHANGED <<now, users, sessions, nextUid, nextJti, issued, hist>>

\* two requests are served at a time, with any of the metadata, and the
\* statements of ReplaceUserSession may fail
NextReplace ==
  \/ \E p \in Procs, r \in RegisterRequests :
        /\ Start(p)
        /\ RegisterCheck(p, r.username, r.email, r.password)
        /\ Bounded(p, MaxMintReplace)
  \/ \E p \in Procs : RegisterCreate(p)
  \/ \E p \in Procs, un \in Usernames :
        Start(p) /\ LoginGetUser(p, un, "Str0ng!Pass")
                 /\ Bounded(p, MaxMintReplace)
  \/ \E p \in Procs :
        getSessionMetadataFromContext(p, [BrowserMetadata EXCEPT
                                            !.ipAddress = "unknown"])
  \/ \E p \in Procs : TxDelete(p)
  \/ \E p \in Procs : TxDeleteResume(p)
  \/ \E p \in Procs : TxDeleteFails(p)
  \/ \E p \in Procs : TxInsertCommit(p)
  \/ \E p \in Procs : TxInsertConflict(p)
  \/ \E p \in Procs : TxInsertInvalid(p)
  \/ \E p \in Procs : TxCommitFails(p)

SpecReplace == Init /\ [][NextReplace]_vars

\* two users register, alice logs in, refresh tokens are presented and the
\* user registered first logs out, one request at a time, while the clock
\* runs and the expired sessions are swept between any two steps
NextSweep ==
  \/ \E r \in RegisterRequestsTwoUsers :
        /\ RegisterCheck(1, r.username, r.email, r.password)
        /\ Bounded(1, MaxMintSweep)
  \/ RegisterCreate(1)
  \/ LoginGetUser(1, "alice", "Str0ng!Pass") /\ Bounded(1, MaxMintSweep)
  \/ TxDelete(1)
  \/ TxInsertCommit(1)
  \/ \E tok \in {t \in Presentable : t.typ = "refresh"} :
        RefreshCheck(1, tok) /\ Bounded(1, MaxMintSweep)
  \/ RefreshRevoke(1)
  \/ LogoutStart(1, 1)
  \/ CleanupExpiredSessions
  \/ now < MaxTimeSweep /\ Tick

SpecSweep == Init /\ [][NextSweep]_vars

\* the scheduling StartSessionCleanup and the server rely on: the ticker
\* keeps delivering ticks to the loop that awaits them, a sweep succeeds
\* again and again whenever sweeps keep being made, and a request under way
\* takes its next step
SpecReaperFair ==
  /\ Init
  /\ [][NextReaper]_vars
  /\ WF_vars(TimerTick)
  /\ SF_vars(TickerCleanup(FALSE))
  /\ WF_vars(RegisterCreate(1) \/ TxDelete(1) \/ TxInsertCommit(1))

\* ----------------------------------------------- what the properties speak of
\* the valid sessions of user uid: not revoked and not expired
ValidSessions(uid) == {s \in sessions : s.user_id = uid /\ IsValid(s, now)}

\* a Login that has reached ReplaceUserSession has just returned, it ran
\* while another Login of the same user was under way, and no Login of
\* that user is under way any more
TwoLoginsFinished ==
  /\ last.op = "Login"
  /\ last.kind \in {OK, WrappedError}
  /\ <<"Login", last.userID>> \in last.peers
  /\ \A q \in Procs : ~(op[q] = "Login" /\ loc[q].userID = last.userID)

\* ---------------------------------------------------------------- properties
\* the rows of user uid with is_revoked = false
ActiveSessions(uid) == {s \in sessions : s.user_id = uid /\ ~s.is_revoked}

\* no call is under way
AllIdle == \A p \in Procs : pc[p] = "idle"

\* C1: in every reachable state of the store, each user has at most one
\* session row with is_revoked = false
C1_AtMostOneActiveSession ==
  \A uid \in UserIds : Cardinality(ActiveSessions(uid)) <= 1

\* a second session of the user was refused by the store (the call returned
\* the error of ReplaceUserSession) and the user has one active row
C1_Witness ==
  /\ last.kind = WrappedError
  /\ Cardinality(ActiveSessions(last.userID)) = 1

ReplaceOps == {"Login", "Refresh"}

\* the call that has just returned ran ReplaceUserSession while another
\* call ran it for the same user
OverlappingReplace ==
  /\ last.op \in ReplaceOps
  /\ last.kind \in {OK, WrappedError}
  /\ \E o \in ReplaceOps : <<o, last.userID>> \in last.peers

\* C3: two concurrent ReplaceUserSession transactions for the same user are
\* serialized by the store and both commit successfully: a call whose
\* ReplaceUserSession overlapped another one for the same user does not
\* return the error of ReplaceUserSession
C3_BothReplacesCommit ==
  OverlappingReplace => last.kind = OK

\* C5: a refresh token is usable at most once, also by concurrent calls: no
\* two successful RefreshToken calls have consumed the same refresh token
C5_RefreshTokenUsedAtMostOnce ==
  \A r1 \in hist.rotations, r2 \in hist.rotations : r1[1] = r2[1] => r1 = r2

C7_LoginSupersedesSessions ==
  /\ (last.op = "Refresh" /\ last.pre.superseded) => last.kind # OK
  /\ (last.op = "Login" /\ last.kind = OK)
        => /\ Cardinality(ValidSessions(last.userID)) = 1
           /\ \A s \in ValidSessions(last.userID) :
                 s.refresh_token = last.pair.refresh

\* a refresh token that was the newest one before a Login is refused
C7_Witness ==
  /\ last.op = "Refresh"
  /\ last.pre.superseded
  /\ ~last.pre.used
  /\ ~last.pre.loggedOut
  /\ last.kind = TokenInvalid

\* C8: after Logout(U) has returned, a RefreshToken call presenting U's
\* most recently issued, still unexpired refresh token fails
C8_RefreshAfterLogoutFails ==
  (last.op = "Refresh" /\ last.pre.loggedOut /\ last.pre.latest
     /\ ~last.pre.expired) => last.kind # OK

\* the newest token, neither used nor superseded nor expired, is refused
\* after a Logout
C8_Witness ==
  /\ last.op = "Refresh"
  /\ last.pre.loggedOut
  /\ last.pre.latest
  /\ ~last.pre.expired
  /\ ~last.pre.used
  /\ ~last.pre.superseded
  /\ last.kind # OK

\* C9: Logout is idempotent: it returns no error, with or without a
\* session; after it the user has no valid session; and a Logout of a user
\* whose rows are all revoked already (a second Logout) leaves table
\* sessions as it was
C9_LogoutIdempotent ==
  /\ [](last.op = "Logout"
          => last.kind = OK /\ ValidSessions(last.userID) = {})
  /\ [][(last'.op = "Logout" /\ ActiveSessions(last'.userID) = {})
          => sessions' = sessions]_vars

\* a Logout has returned for a user whose session an earlier Logout revoked
C9_Witness ==
  /\ last.op = "Logout"
  /\ \E s \in sessions : s.user_id = last.userID /\ s.is_revoked
                           /\ s.revoked_at < now

\* C11: a correctly signed token whose expiry is in the past is rejected
\* with TokenExpired (a kind other than TokenInvalid), by ValidateToken for
\* an access token and by RefreshToken for a refresh token
C11_ExpiredTokenIsTokenExpired ==
  /\ TokenExpired # TokenInvalid
  /\ (last.op = "Validate" /\ last.typ = "access" /\ last.pre.expired)
        => last.kind = TokenExpired
  /\ (last.op = "Refresh" /\ last.typ = "refresh" /\ last.pre.expired)
        => last.kind = TokenExpired

\* the user with id uid exists and is deactivated
Inactive(uid) == \E u \in users : u.user_id = uid /\ ~u.is_active

\* C12: once U's is_active is false, a ValidateToken call with an unexpired,
\* correctly signed access token of U fails with Unauthorized
C12_DeactivationCutsAccess ==
  (last.op = "Validate" /\ last.typ = "access" /\ ~last.pre.expired
     /\ Inactive(last.userID)) => last.kind = Unauthorized

\* an unexpired access token of a deactivated user was refused
C12_Witness ==
  /\ last.op = "Validate"
  /\ last.typ = "access"
  /\ ~last.pre.expired
  /\ Inactive(last.userID)
  /\ last.kind = Unauthorized

\* C13: a Login whose password does not match fails with
\* InvalidCredentials for every username, registered or not
C13_FailedPasswordLoginUniform ==
  (last.op = "Login" /\ ~last.verified) => last.kind = InvalidCredentials

\* the user named un is deactivated and pw is that user's password
InactiveWithPassword(un, pw) ==
  \E u \in users : /\ u.username = un
                   /\ ~u.is_active
                   /\ verifyPassword(u.password_hash, pw)

\* C14: a Login with the correct password of a user whose is_active is
\* false fails with Unauthorized, returns no token pair and creates no
\* session (table sessions and the tokens handed out stay as they were)
C14_InactiveLoginUnauthorized ==
  [][\A p \in Procs, un \in Usernames, pw \in Passwords :
       (InactiveWithPassword(un, pw) /\ LoginGetUser(p, un, pw))
          => /\ last'.op = "Login"
             /\ last'.kind = Unauthorized
             /\ last'.pair = NoPair
             /\ sessions' = sessions
             /\ issued' = issued]_vars

\* a Login with the right password of a deactivated user was refused
C14_Witness ==
  /\ last.op = "Login"
  /\ last.verified
  /\ Inactive(last.userID)
  /\ last.kind = Unauthorized
  /\ last.pair = NoPair

\* a user row holds the username un or the email em
Taken(un, em) == \E u \in users : u.username = un \/ u.email = em

\* C15: Register fails with AlreadyExists whenever the username or the email
\* is taken: when the existence check finds the row, and when the check has
\* passed and the unique constraint refuses the INSERT of a concurrent call
C15_RegisterCollisionAlreadyExists ==
  [][\A p \in Procs :
       /\ \A r \in RegisterRequests :
             (Taken(r.username, r.email)
                /\ RegisterCheck(p, r.username, r.email, r.password))
               => (last'.op = "Register" /\ last'.kind = AlreadyExists)
       /\ (Taken(loc[p].username, loc[p].email) /\ RegisterCreate(p))
               => (last'.op = "Register" /\ last'.kind = AlreadyExists)]_vars

\* the step is one in which a RefreshToken of p ends its checks: the call
\* returns or goes on to revoke the session (what every step of
\* RefreshCheck does)
EndsRefreshChecks(p) ==
  pc[p] = "idle" /\ (last'.op = "Refresh" \/ pc'[p] = "rt_revoke")

C17_InactiveRefreshRejected ==
  [][\A p \in Procs :
       (Start(p) /\ EndsRefreshChecks(p)) =>
         \A tok \in Presentable :
            (/\ Inactive(tok.uid)
             /\ ~NoUsableSession(tok, now)
             /\ ValidateRefreshToken(tok, now).kind = OK
             /\ RefreshCheck(p, tok))
              => /\ last'.op = "Refresh"
                 /\ last'.kind # OK
                 /\ last'.pair = NoPair
                 /\ issued' = issued
                 /\ sessions' = sessions]_vars

\* the refresh token of a deactivated user, whose session is still valid,
\* was refused
C17_Witness ==
  /\ last.op = "Refresh"
  /\ last.typ = "refresh"
  /\ last.kind = Unauthorized
  /\ last.pair = NoPair
  /\ Inactive(last.userID)
  /\ \E s \in sessions : s.user_id = last.userID /\ IsValid(s, now)

\* C18: ValidateToken leaves every row of table sessions as it was, and
\* its result is decided by the token and the user record alone (an access
\* token that is not expired is accepted for an active user and refused
\* with Unauthorized for a deactivated one), whatever the user's session
C18_ValidateIgnoresSessions ==
  /\ [][sessions' # sessions
          => \A p \in Procs, tok \in Presentable : ~ValidateToken(p, tok)]_vars
  /\ [](last.op = "Validate"
          => last.kind = IF last.typ # "access" \/ last.pre.expired
                           THEN TokenInvalid
                         ELSE IF Inactive(last.userID) THEN Unauthorized
                         ELSE OK)

\* an access token was accepted after a Logout had revoked the user's
\* session: the user has a session row and no valid one
C18_Witness ==
  /\ last.op = "Validate"
  /\ last.kind = OK
  /\ ValidSessions(last.userID) = {}
  /\ \E s \in sessions : s.user_id = last.userID /\ s.is_revoked

\* a step of p's ReplaceUserSession transaction
ReplaceStep(p) ==
  \/ TxDelete(p)
  \/ TxDeleteResume(p)
  \/ TxInsertCommit(p)
  \/ TxInsertConflict(p)

\* C19: ReplaceUserSession is atomic towards concurrent readers: when the
\* committed rows show a valid session of U, they show exactly one valid
\* session of U after every statement of a ReplaceUserSession for U, never
\* two and never none
C19_ReplaceAtomicForReaders ==
  [][\A p \in Procs, uid \in UserIds :
       (loc[p].userID = uid /\ ValidSessions(uid) # {} /\ ReplaceStep(p))
         => (Cardinality(ValidSessions(uid)) = 1)']_vars

\* a Login's transaction has deleted the user's valid session and has not
\* committed: a reader still sees that session, and only that one
C19_Witness ==
  \E p \in Procs :
     /\ tx[p].active
     /\ op[p] = "Login"
     /\ \E s \in ValidSessions(loc[p].userID) : s.session_id \in tx[p].del
     /\ Cardinality(ValidSessions(loc[p].userID)) = 1

\* C20: when ReplaceUserSession fails during Register, Login or
\* RefreshToken, the operation fails with the kind Internal and returns no
\* token pair (and hands out no token)
C20_ReplaceFailureIsInternal ==
  [][\A p \in Procs :
       TxInsertConflict(p)
         => /\ last'.op \in {"Register", "Login", "Refresh"}
            /\ HandlerErrorKind(last'.kind) = Internal
            /\ last'.pair = NoPair
            /\ issued' = issued]_vars

\* a RefreshToken whose ReplaceUserSession failed has returned; the handler
\* writes Internal
C20_Witness ==
  /\ last.op = "Refresh"
  /\ last.kind = WrappedError
  /\ HandlerErrorKind(last.kind) = Internal
  /\ last.pair = NoPair

\* C10: class isolation: RefreshToken refuses an access token with
\* TokenInvalid and ValidateToken refuses a refresh token with TokenInvalid
C10_ClassIsolation ==
  /\ (last.op = "Refresh" /\ last.typ = "access") => last.kind = TokenInvalid
  /\ (last.op = "Validate" /\ last.typ = "refresh") => last.kind = TokenInvalid

\* a refresh token whose session is valid was presented to ValidateToken
C10_Witness ==
  /\ last.op = "Validate"
  /\ last.typ = "refresh"
  /\ last.kind = TokenInvalid
  /\ \E s \in sessions : IsValid(s, now)

\* C21: GetByRefreshToken hands back a row only when its expires_at is later
\* than the clock it read, and a ValidateSession that presents the token of
\* a row whose expires_at has passed or is passing returns NotFound although
\* the row is still in the table
C21_ExpiredRowIsNotFound ==
  /\ [](\A p \in Procs :
          pc[p] = "vs_touch" => loc[p].session.expires_at > loc[p].started)
  /\ [][\A tok \in Presentable :
          ((\E s \in sessions : s.refresh_token = tok /\ s.expires_at <= now)
             /\ ValidateSessionGet(1, tok))
          => (last'.op = "ValidateSession" /\ last'.kind = NotFound)]_vars

\* ValidateSession has returned NotFound for the latest refresh token of a
\* user whose row, not revoked, is still stored with its expires_at reached
C21_Witness ==
  /\ last.op = "ValidateSession"
  /\ last.kind = NotFound
  /\ last.pre.latest
  /\ \E s \in sessions :
        /\ s.session_id = Latest(last.userID)
        /\ ~s.is_revoked
        /\ s.expires_at <= now

\* C22: the RevokeAllByUserID of a Logout of user uid revokes every session
\* of uid that was not revoked and stamps its revoked_at with the clock,
\* leaves the user with no unrevoked row, deletes and adds no row, and
\* leaves the rows of the other users and the rows revoked before as they
\* were
C22_RevokeAllByUserIDFrame ==
  [][\A uid \in UserIds :
       (pc[1] = "idle" /\ LogoutStart(1, uid)) =>
         /\ {s.session_id : s \in sessions'} = {s.session_id : s \in sessions}
         /\ \A s \in sessions :
               IF s.user_id = uid /\ ~s.is_revoked
                 THEN [s EXCEPT !.is_revoked = TRUE, !.revoked_at = now]
                        \in sessions'
                 ELSE s \in sessions'
         /\ \A s \in sessions' :
               s.user_id = uid => (s.is_revoked /\ s.revoked_at # NULL)]_vars

\* a Logout has just revoked the session of its user while another user
\* holds a session that is not revoked
C22_Witness ==
  /\ last.op = "Logout"
  /\ \E s \in sessions :
        s.user_id = last.userID /\ s.is_revoked /\ s.revoked_at = now
  /\ \E s \in sessions : s.user_id # last.userID /\ ~s.is_revoked

\* C23: a sweep removes exactly the rows whose expires_at is earlier than the
\* clock, revoked or not, keeps every row whose expires_at is the clock or
\* later, and adds and changes no row
C23_DeleteExpiredExact ==
  [][(sessions' # sessions /\ CleanupExpiredSessions) =>
       /\ sessions' \subseteq sessions
       /\ \A s \in sessions : s.expires_at < now <=> s \notin sessions'
       /\ \A s \in sessions : s.expires_at >= now => s \in sessions']_vars

\* a sweep has removed the revoked session of one user, whose refresh token
\* was logged out, and has kept the session of another user that expires at
\* this very tick
C23_Witness ==
  /\ \E t \in issued :
        /\ t.typ = "refresh"
        /\ t.jti \in hist.loggedOut
        /\ \A s \in sessions : s.user_id # t.uid
  /\ \E s \in sessions : s.expires_at = now

\* C24: every stored session that is revoked carries a revoked_at
C24_RevokedHasRevokedAt ==
  \A s \in sessions : s.is_revoked => s.revoked_at # NULL

\* a revoked session is stored
C24_Witness ==
  \E s \in sessions : s.is_revoked /\ s.revoked_at # NULL

\* C25: Session.IsValid is true exactly of the sessions that are not revoked
\* and whose expires_at is later than the clock, so that a session is not
\* valid at the tick of its expires_at
C25_IsValidUntilExpiry ==
  \A s \in sessions : IsValid(s, now) <=> (~s.is_revoked /\ now < s.expires_at)

\* C26: when the UpdateLastActivity of a ValidateSession fails, because the
\* store fails or because no row has the session_id, ValidateSession still
\* returns, without an error, the session that GetByRefreshToken has read,
\* and the table is left as it was
C26_UpdateLastActivityBestEffort ==
  [][\A fails \in BOOLEAN :
       (/\ pc[1] = "vs_touch"
        /\ fails \/ \A s \in sessions : s.session_id # loc[1].session.session_id
        /\ ValidateSessionTouch(1, fails))
       => /\ last'.op = "ValidateSession"
          /\ last'.kind = OK
          /\ last'.session = loc[1].session
          /\ sessions' = sessions]_vars

\* ValidateSession has returned a session whose row does not carry the
\* clock of the return as its last_activity_at: the UPDATE has failed
C26_Witness ==
  /\ last.op = "ValidateSession"
  /\ last.kind = OK
  /\ last.session # NoSession
  /\ ~last.session.is_revoked
  /\ \E s \in sessions :
        s.session_id = last.session.session_id /\ s.last_activity_at # now

\* a step of one of the goroutines of StartSessionCleanup
ReaperStep == \E g \in Goroutines : pc'[g] # pc[g]

\* C27: the initial sweep runs once and its goroutine is done; the ticker
\* loop makes one sweep for each tick it receives and then awaits the next
\* tick, also when the sweep has failed, so that it never ends; a sweep
\* that fails changes nothing but the log; rows go away without a request
\* only in a sweep; and the goroutines leave the requests alone: they hold
\* no lock a request waits for, and their steps change neither the
\* transactions nor the position or the locals of a request
C27_ReaperSchedule ==
  /\ [](/\ pc[InitialSweep] \in {"sweep", "done"}
        /\ pc[TickerLoop] \in {"wait", "sweep"}
        /\ pc[TickerLoop] = "wait" => ENABLED TimerTick
        /\ \A p \in Procs : pc[p] \notin {"tx_delete_wait", "lo_wait"})
  /\ [][/\ pc[InitialSweep] = "done" => pc'[InitialSweep] = "done"
        /\ pc'[TickerLoop] # pc[TickerLoop] =>
              \/ TimerTick
              \/ pc[TickerLoop] = "sweep" /\ pc'[TickerLoop] = "wait"
        /\ (/\ \A p \in Procs : pc'[p] = pc[p]
            /\ \E s \in sessions :
                  \A r \in sessions' : r.session_id # s.session_id) =>
              \E g \in Goroutines : pc[g] = "sweep" /\ pc'[g] # "sweep"
        /\ ReaperStep =>
              /\ UNCHANGED <<now, users, tx, op, loc, issued>>
              /\ \A p \in Procs : pc'[p] = pc[p]
        /\ (ReaperStep /\ hist'.reaper = "failed") =>
              UNCHANGED sessions]_vars

\* the initial sweep is done, and the ticker loop, after a sweep that
\* failed, has made a sweep that succeeded and removed a session, and
\* awaits its next tick
C27_Witness ==
  /\ pc[InitialSweep] = "done"
  /\ pc[TickerLoop] = "wait"
  /\ hist.reaper = "recovered"
  /\ \E t \in issued : t.typ = "refresh" /\ \A s \in sessions : s.user_id # t.uid

\* the session_ids a run of SpecReaper can hand out: of each token pair the
\* refresh token is minted second
SessionIds == {2 * k : k \in 1 .. MaxMintReaper}

\* the row with session_id sid is stored and its expires_at has passed
Stale(sid) ==
  \E s \in sessions : s.session_id = sid /\ s.expires_at < now

\* C28: under the fair scheduling of the ticker, of the sweeps and of the
\* requests, every stored row whose expires_at has passed is deleted in the
\* end
C28_ExpiredRowsEventuallyDeleted ==
  /\ [](\A s \in sessions : s.session_id \in SessionIds)
  /\ \A sid \in SessionIds :
        Stale(sid) ~> (\A s \in sessions : s.session_id # sid)

\* the row of a user's latest refresh token, never logged out, has been
\* removed after its expires_at has passed, and the ticker loop awaits its
\* next tick
C28_Witness ==
  /\ pc[TickerLoop] = "wait"
  /\ \E t \in issued :
        /\ t.typ = "refresh"
        /\ t.jti = Latest(t.uid)
        /\ t.jti \notin hist.loggedOut
        /\ t.exp < now
        /\ \A s \in sessions : s.session_id # t.jti

\* the class a token check expects and the secret of that class
ExpectedClass ==
  IF last.op = "ValidateAccessToken" THEN "access" ELSE "refresh"

ExpectedSecret ==
  IF last.op = "ValidateAccessToken" THEN AccessTokenSecret
  ELSE RefreshTokenSecret

\* a token check has just returned
Checked == last.op \in {"ValidateAccessToken", "ValidateRefreshToken"}

\* the presented token is signed with an HMAC algorithm and the secret of
\* the expected class
WellSigned ==
  /\ loc[1].token.alg \in {"HS256", "HS384", "HS512"}
  /\ loc[1].token.key = ExpectedSecret

C30_CheckOrder ==
  Checked =>
    /\ ~WellSigned => last.kind = TokenInvalid
    /\ (WellSigned /\ loc[1].token.nbf <= now /\ ~(now < loc[1].token.exp))
         => last.kind = TokenExpired

\* the claims validateToken returns for a token of user u and class c
ClaimsOf(u, c) ==
  [uid |-> u.user_id, username |-> u.username, email |-> u.email, typ |-> c]

\* the token pair of MintPair validates, each token in its class and with
\* the claims of the user, for as long as its exp has not come
RoundTrip ==
  loc[1].pair # NoPair =>
    /\ (/\ last.op = "ValidateAccessToken"
        /\ loc[1].token = loc[1].pair.access
        /\ now < loc[1].pair.access.exp)
         => (last.kind = OK /\ last.claims = ClaimsOf(loc[1].user, "access"))
    /\ (/\ last.op = "ValidateRefreshToken"
        /\ loc[1].token = loc[1].pair.refresh
        /\ now < loc[1].pair.refresh.exp)
         => (last.kind = OK /\ last.claims = ClaimsOf(loc[1].user, "refresh"))

\* C31: the tokens of GenerateTokenPair make the round trip through the
\* checks of their classes, the exp of each token is its iat plus the
\* duration of its class, and the refresh expiry that GenerateTokenPair
\* returns is the exp of the refresh token
C31_MintValidateRoundTrip ==
  /\ RoundTrip
  /\ loc[1].pair # NoPair =>
       /\ loc[1].pair.access.exp = loc[1].pair.access.iat + AccessTokenExpiry
       /\ loc[1].pair.refresh.exp
            = loc[1].pair.refresh.iat + RefreshTokenExpiry
       /\ loc[1].expiresAt = loc[1].pair.refresh.exp

\* C32: the metadata decide nothing: whatever metadata the request carries,
\* the INSERT of its ReplaceUserSession has the same outcome, and whatever
\* metadata a stored session carries, GetByRefreshToken reads it the same
C32_MetadataDecideNothing ==
  /\ \A p \in Procs :
        pc[p] = "tx_insert" =>
          \A m \in SessionMetadataValues :
             Storable([Pending(p) EXCEPT !.metadata = m]) = Storable(Pending(p))
  /\ \A s \in sessions :
        \A m \in SessionMetadataValues :
           Scannable([s EXCEPT !.metadata = m]) = Scannable(s)

\* C33: a Login that returns InvalidCredentials or Unauthorized leaves the
\* tables sessions and users as they were, and every refresh token gets
\* from RefreshToken the answer it would have got before
C33_FailedLoginChangesNothing ==
  [][(last'.op = "Login"
        /\ last'.kind \in {InvalidCredentials, Unauthorized}) =>
       /\ sessions' = sessions
       /\ users' = users
       /\ \A tok \in Presentable :
             RefreshChecks(tok, now)' = RefreshChecks(tok, now)]_vars

\* a Login with a wrong password has failed for a user who holds a valid
\* session, and RefreshToken would accept the refresh token of that session
C33_Witness ==
  /\ last.op = "Login"
  /\ last.kind = InvalidCredentials
  /\ \E s \in ValidSessions(last.userID) :
        RefreshChecks(s.refresh_token, now) = OK


\* C34: a RefreshToken that is rejected by its checks (token validation,
\* session lookup, session validity, user lookup and the is_active test)
\* changes no row of table sessions and no row of table users
C34_RejectedRefreshChangesNothing ==
  [][(last'.op = "Refresh"
        /\ last'.kind \in {TokenInvalid, TokenExpired, NotFound,
                           Unauthorized}) =>
       /\ sessions' = sessions
       /\ users' = users]_vars

\* a RefreshToken has been refused for a user who is not active while the
\* session of the presented token is still valid in the table
C34_Witness ==
  /\ last.op = "Refresh"
  /\ last.kind = Unauthorized
  /\ ValidSessions(last.userID) # {}


\* C35: a RefreshToken that returns a failure has not consumed the token
\* it was given: when the call returns, the session of that token is still
\* valid and the checks of RefreshToken accept the token again
C35_FailedRefreshKeepsToken ==
  [][\A p \in Procs :
       (/\ last'.op = "Refresh"
        /\ last'.kind # OK
        /\ op[p] = "Refresh"
        /\ pc[p] = "tx_insert"
        /\ pc'[p] = "idle") =>
          \A tok \in {loc[p].token} : RefreshChecks(tok, now)' = OK]_vars


\* C36: Register is all or nothing: when a Register that has created its
\* user row returns a failure, no user row of that call is in table users,
\* and a Register with the same username and email is not refused with
\* AlreadyExists
C36_FailedRegisterLeavesNoUser ==
  [][\A p \in Procs :
       (/\ last'.op = "Register"
        /\ last'.kind # OK
        /\ op[p] = "Register"
        /\ pc[p] = "tx_insert"
        /\ pc'[p] = "idle") =>
          /\ \A u \in users' : u.user_id # loc[p].userID
          /\ \A un \in {loc[p].username}, em \in {loc[p].email} :
                ~Taken(un, em)']_vars


\* C37: when ReplaceUserSession fails, at Begin, at the DELETE, at the
\* INSERT or at Commit, its transaction is closed and table sessions is as
\* it was: no row is added, and every row the DELETE of the transaction had
\* removed is in the table
C37_FailedReplaceRollsBack ==
  [][\A p \in Procs :
       (/\ last'.op \in {"Register", "Login", "Refresh"}
        /\ last'.kind # OK
        /\ pc[p] \in {"tx_delete", "tx_delete_wait", "tx_insert"}
        /\ pc'[p] = "idle") =>
          /\ sessions' = sessions
          /\ \A sid \in tx[p].del : \E s \in sessions' : s.session_id = sid
          /\ tx'[p] = NoTx]_vars

\* a Login whose ReplaceUserSession failed has returned, and the session the
\* user held before is in the table, valid
C37_Witness ==
  /\ last.op = "Login"
  /\ last.kind = WrappedError
  /\ ValidSessions(last.userID) # {}


\* C38: once Logout(U) has returned, U has no valid session until a later
\* Login or Register: a RefreshToken that had read the session before the
\* Logout revoked it, and that no Login or Register of U has overlapped,
\* does not return a token pair and leave U with a valid session
C38_NoRefreshAcrossLogout ==
  [][\A p \in Procs :
       (/\ last'.op = "Refresh"
        /\ last'.kind = OK
        /\ op[p] = "Refresh"
        /\ pc[p] = "tx_insert"
        /\ pc'[p] = "idle"
        /\ loc[p].token.jti \in hist.loggedOut
        /\ \A o \in {"Login", "Register"} :
              <<o, loc[p].userID>> \notin loc[p].peers \cup InFlight(p)) =>
          \A uid \in {loc[p].userID} : ValidSessions(uid)' = {}]_vars


\* C39: the reaper never removes a valid session: a sweep, wherever it falls
\* between the steps of Register, Login, RefreshToken and Logout, only
\* removes rows, removes no row with is_revoked = false and now <
\* expires_at, and every refresh token that the checks of RefreshToken
\* accepted before the sweep is accepted after it
C39_SweepKeepsValidSessions ==
  [][CleanupExpiredSessions =>
       /\ sessions' \subseteq sessions
       /\ \A s \in sessions \ sessions' :
             ~(~s.is_revoked /\ now < s.expires_at)
       /\ \A tok \in Presentable :
             RefreshChecks(tok, now) = OK => RefreshChecks(tok, now)' = OK]_vars

\* a sweep has removed the expired session of one user (no row is left of
\* the refresh tokens the user got) while another user held a session
\* created before that expiry; that session is in the table, valid, and
\* RefreshToken accepts its token
C39_Witness ==
  \E gone \in issued : \E s \in sessions :
     /\ gone.typ = "refresh"
     /\ \A r \in sessions : r.user_id # gone.uid
     /\ s.user_id # gone.uid
     /\ s.last_activity_at <= gone.exp
     /\ ~s.is_revoked
     /\ now < s.expires_at
     /\ RefreshChecks(s.refresh_token, now) = OK


\* C40: ReplaceUserSession replaces and does not append: in every reachable
\* state, also while Login, RefreshToken and Logout of one user run
\* concurrently, each user has at most one row in table sessions, revoked
\* or not
C40_AtMostOneSessionRow ==
  \A uid \in UserIds :
     Cardinality({s \in sessions : s.user_id = uid}) <= 1

====
